---- MODULE Spec2Model ----
(***************************************************************************)
(* A model of dockermatrix (src/dockermatrix.py): the build matrix         *)
(* (BuildMatrix.__init__, BuildMatrix.build), the Dockerfile renderer      *)
(* (Builder.build) and the Docker Hub updater (HubUpdater).                *)
(*                                                                         *)
(* Strings are TLC strings; Python's None is the empty tuple NoneVal and a *)
(* present value x is the one-element tuple Some(x).                       *)
(***************************************************************************)
EXTENDS Integers, Sequences, FiniteSets, TLC

VARIABLES
    phase,        \* matrix:  "new" | "ready"
    matrix,       \* the argument of create_build_matrix: a set of <<version string, options>>
    builds,       \* BuildMatrix.builds
    latest,       \* BuildMatrix.latest: version string -> set of alias labels
    last_call,    \* the arguments of the last BuildMatrix.build call (NoneVal before the first)
    images,       \* the value the last BuildMatrix.build call returned
    render,       \* Builder.build: its position, the file system and the manifest
    hub           \* HubUpdater and the registry it talks to

vars == <<phase, matrix, builds, latest, last_call, images, render, hub>>

(***************************************************************************)
(* Python values                                                           *)
(***************************************************************************)
NoneVal == << >>
Some(x) == << x >>
IsNone(o) == o = NoneVal
Val(o) == o[1]

Range(f) == { f[x] : x \in DOMAIN f }

\* All the orders in which a set can be iterated.
RECURSIVE Orders(_)
Orders(S) ==
    IF S = {} THEN { << >> }
    ELSE UNION { { << x >> \o s : s \in Orders(S \ {x}) } : x \in S }

(***************************************************************************)
(* Strings                                                                 *)
(***************************************************************************)
Char(s, i) == SubSeq(s, i, i)

\* The least index >= from at which s holds the character c, 0 when there is none.
RECURSIVE IndexOf(_, _, _)
IndexOf(s, c, from) ==
    IF from > Len(s) THEN 0
    ELSE IF Char(s, from) = c THEN from
    ELSE IndexOf(s, c, from + 1)

DigitValue(c) ==
    CASE c = "0" -> 0 [] c = "1" -> 1 [] c = "2" -> 2 [] c = "3" -> 3 [] c = "4" -> 4
      [] c = "5" -> 5 [] c = "6" -> 6 [] c = "7" -> 7 [] c = "8" -> 8 [] c = "9" -> 9

\* int(s) for a string of decimal digits.
RECURSIVE StrToInt(_)
StrToInt(s) ==
    IF Len(s) = 0 THEN 0
    ELSE 10 * StrToInt(SubSeq(s, 1, Len(s) - 1)) + DigitValue(Char(s, Len(s)))

\* sep.join(parts) for a sequence of strings.
RECURSIVE Join(_, _)
Join(sep, parts) ==
    IF Len(parts) = 0 THEN ""
    ELSE IF Len(parts) = 1 THEN parts[1]
    ELSE parts[1] \o sep \o Join(sep, Tail(parts))

\* [str(x) for x in xs if x is not None]
RECURSIVE FilterNone(_)
FilterNone(xs) ==
    IF Len(xs) = 0 THEN << >>
    ELSE IF IsNone(Head(xs)) THEN FilterNone(Tail(xs))
    ELSE << Val(Head(xs)) >> \o FilterNone(Tail(xs))

\* os.path.join(a, b) for a relative b: b alone when a is empty, no separator
\* added when a already ends in one.
os_path_join(a, b) ==
    IF Len(a) = 0 THEN b
    ELSE IF Char(a, Len(a)) = "/" THEN a \o b
    ELSE a \o "/" \o b

(***************************************************************************)
(* The semver library (semver >= 2.7), as the program uses it               *)
(***************************************************************************)
VersionInfo(major, minor, patch, prerelease, build) ==
    [major |-> major, minor |-> minor, patch |-> patch,
     prerelease |-> prerelease, build |-> build]

\* semver.format_version(major, minor, patch, prerelease, build)
format_version(v) ==
    ToString(v.major) \o "." \o ToString(v.minor) \o "." \o ToString(v.patch)
      \o (IF IsNone(v.prerelease) THEN "" ELSE "-" \o Val(v.prerelease))
      \o (IF IsNone(v.build) THEN "" ELSE "+" \o Val(v.build))

\* semver.parse_version_info(s) for a valid MAJOR.MINOR.PATCH[-PRERELEASE][+BUILD].
parse_version_info(s) ==
    LET d1   == IndexOf(s, ".", 1)
        d2   == IndexOf(s, ".", d1 + 1)
        plus == IndexOf(s, "+", d2 + 1)
        dash == IndexOf(s, "-", d2 + 1)
        pre  == dash # 0 /\ (plus = 0 \/ dash < plus)
        core == IF pre THEN dash - 1 ELSE IF plus # 0 THEN plus - 1 ELSE Len(s)
        endp == IF plus # 0 THEN plus - 1 ELSE Len(s)
    IN  VersionInfo(StrToInt(SubSeq(s, 1, d1 - 1)),
                    StrToInt(SubSeq(s, d1 + 1, d2 - 1)),
                    StrToInt(SubSeq(s, d2 + 1, core)),
                    IF pre THEN Some(SubSeq(s, dash + 1, endp)) ELSE NoneVal,
                    IF plus # 0 THEN Some(SubSeq(s, plus + 1, Len(s))) ELSE NoneVal)

cmp(a, b) == IF a < b THEN -1 ELSE IF a > b THEN 1 ELSE 0

\* The prerelease identifiers of the model's inputs, in ASCII order.
PrereleaseOrder == << "beta", "rc" >>
PrereleaseRank(p) == CHOOSE i \in DOMAIN PrereleaseOrder : PrereleaseOrder[i] = p

\* semver._nat_cmp on two prerelease values (None counts as '').
nat_cmp(a, b) ==
    IF a = b THEN 0
    ELSE IF IsNone(a) THEN -1
    ELSE IF IsNone(b) THEN 1
    ELSE cmp(PrereleaseRank(Val(a)), PrereleaseRank(Val(b)))

\* semver.compare(ver1, ver2): major, minor, patch, then the prerelease, a
\* version without prerelease being the greater; build metadata is ignored.
compare(ver1, ver2) ==
    LET v1 == parse_version_info(ver1)
        v2 == parse_version_info(ver2)
        rc == nat_cmp(v1.prerelease, v2.prerelease)
    IN  IF v1.major # v2.major THEN cmp(v1.major, v2.major)
        ELSE IF v1.minor # v2.minor THEN cmp(v1.minor, v2.minor)
        ELSE IF v1.patch # v2.patch THEN cmp(v1.patch, v2.patch)
        ELSE IF rc = 0 THEN 0
        ELSE IF IsNone(v1.prerelease) THEN 1
        ELSE IF IsNone(v2.prerelease) THEN -1
        ELSE rc

\* semver.max_ver(ver1, ver2): ver1 unless ver2 is strictly greater.
max_ver(ver1, ver2) == IF compare(ver1, ver2) \in {0, 1} THEN ver1 ELSE ver2

(***************************************************************************)
(* dockermatrix: alias labels and build elements                           *)
(***************************************************************************)
format_major_version(v) ==
    ToString(v.major)
      \o (IF IsNone(v.prerelease) THEN "" ELSE "-" \o Val(v.prerelease))
      \o (IF IsNone(v.build) THEN "" ELSE "+" \o Val(v.build))

format_minor_version(v) ==
    ToString(v.major) \o "." \o ToString(v.minor)
      \o (IF IsNone(v.prerelease) THEN "" ELSE "-" \o Val(v.prerelease))
      \o (IF IsNone(v.build) THEN "" ELSE "+" \o Val(v.build))

ImageBuild(version, options) == [version |-> version, options |-> options]

get_formatted_version(build) == format_version(build.version)

filter_options(build) == FilterNone(build.options)

Image(tags, path) == [tags |-> tags, path |-> path]

(***************************************************************************)
(* BuildMatrix                                                             *)
(***************************************************************************)
EmptyDict == [k \in {} |-> ""]
DictGet(d, k, default) == IF k \in DOMAIN d THEN d[k] ELSE default
DictSet(d, k, v) == [x \in DOMAIN d \cup {k} |-> IF x = k THEN v ELSE d[x]]

\* The version string a label without an entry yet is compared against.
DefaultLatest == "0.0.0"

\* One iteration of "Find latest versions": the candidate mapping label ->
\* version string after `build`.
update_latest(cand, build) ==
    LET major   == format_major_version(build.version)
        minor   == format_minor_version(build.version)
        version == get_formatted_version(build)
        c1 == DictSet(cand, major, max_ver(DictGet(cand, major, DefaultLatest), version))
    IN  DictSet(c1, minor, max_ver(DictGet(c1, minor, DefaultLatest), version))

\* "Find latest versions" over the builds in iteration order.
RECURSIVE find_latest(_, _)
find_latest(cand, order) ==
    IF Len(order) = 0 THEN cand
    ELSE find_latest(update_latest(cand, Head(order)), Tail(order))

\* rehash_latest without the grouping: every version string holds every label.
rehash_latest_ungrouped(cand) ==
    [version \in Range(cand) |-> DOMAIN cand]

\* "Rehash latest versions": version string -> the labels it holds.
rehash_latest(cand) ==
    [version \in Range(cand) |-> { l \in DOMAIN cand : cand[l] = version }]

\* BuildMatrix.__init__: self.latest for the builds iterated in `order`.
BuildMatrix_init(order) == rehash_latest(find_latest(EmptyDict, order))

\* tag_versions adding the version to the set held by self.latest in place.
tag_versions_in_place(version, lat) ==
    IF version \in DOMAIN lat
    THEN [versions |-> lat[version] \cup {version},
          latest   |-> [lat EXCEPT ![version] = @ \cup {version}]]
    ELSE [versions |-> {version}, latest |-> lat]

\* The version strings an element is tagged with, and self.latest afterwards
\* (set.union builds a new set: self.latest is left as it was).
tag_versions(version, lat) ==
    [versions |-> IF version \in DOMAIN lat THEN {version} \cup lat[version] ELSE {version},
     latest   |-> lat]

\* build_image with the path always built from major.minor.
build_image_minor_path(build, lat, base_path, full_version_path) ==
    LET version      == get_formatted_version(build)
        minor        == ToString(build.version.major) \o "." \o ToString(build.version.minor)
        path_version == minor
        tv           == tag_versions(version, lat)
        tags == { Join("-", FilterNone(<< Some(v) >> \o build.options)) : v \in tv.versions }
        path == os_path_join(base_path,
                             Join("/", FilterNone(<< Some(path_version) >> \o build.options)))
    IN  [pair |-> [build |-> build, image |-> Image(tags, path)], latest |-> tv.latest]

\* One iteration of BuildMatrix.build: the pair added to `images`, and
\* self.latest afterwards.
build_image(build, lat, base_path, full_version_path) ==
    LET version      == get_formatted_version(build)
        minor        == ToString(build.version.major) \o "." \o ToString(build.version.minor)
        path_version == IF full_version_path THEN version ELSE minor
        tv           == tag_versions(version, lat)
        tags == { Join("-", FilterNone(<< Some(v) >> \o build.options)) : v \in tv.versions }
        path == os_path_join(base_path,
                             Join("/", FilterNone(<< Some(path_version) >> \o build.options)))
    IN  [pair |-> [build |-> build, image |-> Image(tags, path)], latest |-> tv.latest]

\* BuildMatrix.build over the builds in iteration order: the set of pairs and
\* self.latest afterwards.
RECURSIVE build_loop(_, _, _, _, _)
build_loop(order, lat, acc, base_path, full_version_path) ==
    IF Len(order) = 0 THEN [images |-> acc, latest |-> lat]
    ELSE LET r == build_image(Head(order), lat, base_path, full_version_path)
         IN  build_loop(Tail(order), r.latest, acc \cup {r.pair}, base_path, full_version_path)

\* One order in which the set S is iterated.
RECURSIVE IterationOrder(_)
IterationOrder(S) ==
    IF S = {} THEN << >>
    ELSE LET x == CHOOSE y \in S : TRUE IN << x >> \o IterationOrder(S \ {x})

\* BuildMatrix.build: the returned set of pairs and self.latest afterwards.
\* The loop adds one pair per build to a set and reads self.latest; it is run
\* in one iteration order of self.builds (BuildOrderIndependent: any order
\* gives the same result).
BuildMatrix_build(bs, lat, base_path, full_version_path) ==
    build_loop(IterationOrder(bs), lat, {}, base_path, full_version_path)

(***************************************************************************)
(* Inputs                                                                  *)
(***************************************************************************)
MaxBuilds == 3

VersionStrings ==
    { "0.0.0", "0.0.1", "0.1.0", "0.0.0-beta", "0.1.0-beta", "1.0.0-rc+b" }

OptionTuples ==
    { << >>, << Some("beta") >>, << Some("option"), NoneVal, Some("beta") >> }

MatrixEntries == VersionStrings \X OptionTuples

BasePaths == { "dist", "out/img" }

\* The subsets of S with at most k elements.
RECURSIVE SubsetsUpTo(_, _)
SubsetsUpTo(S, k) ==
    IF k = 0 THEN { {} }
    ELSE LET prev == SubsetsUpTo(S, k - 1)
         IN  prev \cup { p \cup {x} : p \in prev, x \in S }

RenderIdle == [pc |-> "idle"]
HubIdle == [pc |-> "idle"]

(***************************************************************************)
(* The build matrix: create_build_matrix, then BuildMatrix.build           *)
(***************************************************************************)
Init ==
    /\ phase = "new"
    /\ matrix \in SubsetsUpTo(MatrixEntries, MaxBuilds) \ { {} }
    /\ builds = {}
    /\ latest = EmptyDict
    /\ last_call = NoneVal
    /\ images = {}
    /\ render = RenderIdle
    /\ hub = HubIdle

\* create_build_matrix(matrix): parse every entry, then BuildMatrix(builds).
CreateBuildMatrix ==
    /\ phase = "new"
    /\ LET bs == { ImageBuild(parse_version_info(t[1]), t[2]) : t \in matrix }
       IN  /\ builds' = bs
           /\ \E order \in Orders(bs) : latest' = BuildMatrix_init(order)
    /\ phase' = "ready"
    /\ UNCHANGED <<matrix, last_call, images, render, hub>>

\* BuildMatrix.build(base_path, full_version_path)
Build ==
    /\ phase = "ready"
    /\ \E base_path \in BasePaths, full_version_path \in BOOLEAN :
         LET r == BuildMatrix_build(builds, latest, base_path, full_version_path)
         IN  /\ images' = r.images
             /\ latest' = r.latest
             /\ last_call' = Some([base_path |-> base_path,
                                   full_version_path |-> full_version_path,
                                   repeated |-> /\ ~IsNone(last_call)
                                                /\ Val(last_call).base_path = base_path
                                                /\ Val(last_call).full_version_path
                                                     = full_version_path])
    /\ UNCHANGED <<phase, matrix, builds, render, hub>>

Next == CreateBuildMatrix \/ Build

Spec == Init /\ [][Next]_vars

(***************************************************************************)
(* Properties of the build matrix                                          *)
(***************************************************************************)
Called == ~IsNone(last_call)

\* The elements that produce the alias label l.
Line(l) ==
    { b \in builds : l \in {format_major_version(b.version), format_minor_version(b.version)} }

\* b's version is a maximum, under semantic-version ordering, of the elements of `line`.
IsMaxOf(b, line) ==
    \A e \in line : compare(get_formatted_version(b), get_formatted_version(e)) \in {0, 1}

\* The version strings under which the latest mapping holds the label l.
Holders(l) == { v \in DOMAIN latest : l \in latest[v] }

\* BuildMatrix.build returns the same set whatever the iteration order of the builds.
BuildOrderIndependent ==
    phase = "ready" =>
        \A order \in Orders(builds) : \A base_path \in BasePaths, full \in BOOLEAN :
            build_loop(order, latest, {}, base_path, full)
              = BuildMatrix_build(builds, latest, base_path, full)

\* C1: every alias label produced by some element is held by exactly one version
\* string of the latest mapping, and that string is the formatted version of the
\* maximum, under semantic-version ordering, of the elements producing the label.
C1_LabelHeldByLineMaximum ==
    phase = "ready" =>
        \A b \in builds :
            \A l \in {format_major_version(b.version), format_minor_version(b.version)} :
                /\ Cardinality(Holders(l)) = 1
                /\ \A v \in Holders(l) :
                       \E e \in Line(l) : get_formatted_version(e) = v /\ IsMaxOf(e, Line(l))

\* The prerelease string an alias label M[.m][-pre][+build] carries (NoneVal: none).
label_prerelease(l) ==
    LET plus == IndexOf(l, "+", 1)
        dash == IndexOf(l, "-", 1)
    IN  IF dash # 0 /\ (plus = 0 \/ dash < plus)
        THEN Some(SubSeq(l, dash + 1, IF plus # 0 THEN plus - 1 ELSE Len(l)))
        ELSE NoneVal

\* C2: every alias label held by a version string v carries exactly v's prerelease
\* string: a bare label is held only by a version without prerelease, a label
\* with "-pre" only by a version whose prerelease is pre.
C2_LabelCarriesHolderPrerelease ==
    phase = "ready" =>
        \A v \in DOMAIN latest : \A l \in latest[v] :
            label_prerelease(l) = parse_version_info(v).prerelease

\* The tag built from the version or label t and the non-absent options, in order.
RECURSIVE Suffixed(_, _, _)
Suffixed(t, sep, options) ==
    IF Len(options) = 0 THEN t
    ELSE IF IsNone(Head(options)) THEN Suffixed(t, sep, Tail(options))
    ELSE Suffixed(t \o sep \o Val(Head(options)), sep, Tail(options))

\* C3: an element whose version is the maximum neither of its major line nor of
\* its minor line gets exactly one tag, the one built from its own formatted
\* version and its non-absent options.
C3_NonMaximumHasOwnTagOnly ==
    Called =>
        \A p \in images :
            (/\ ~IsMaxOf(p.build, Line(format_major_version(p.build.version)))
             /\ ~IsMaxOf(p.build, Line(format_minor_version(p.build.version))))
            => p.image.tags = { Suffixed(get_formatted_version(p.build), "-", p.build.options) }

\* C4: build emits exactly one pair per element, with the tags
\* { t-o1-...-ok : t in {v} union latest.get(v, {}) } and the path
\* base_path/pathVersion/o1/.../ok, pathVersion being v when full_version_path
\* is set and major.minor otherwise; there are as many pairs as elements.
C4_BuildEmitsTagsAndPath ==
    Called =>
        /\ Cardinality(images) = Cardinality(builds)
        /\ \A b \in builds :
             LET v  == get_formatted_version(b)
                 c  == Val(last_call)
                 pv == IF c.full_version_path THEN v
                       ELSE ToString(b.version.major) \o "." \o ToString(b.version.minor)
                 ts == {v} \cup (IF v \in DOMAIN latest THEN latest[v] ELSE {})
             IN  /\ Cardinality({ p \in images : p.build = b }) = 1
                 /\ \A p \in images :
                      p.build = b =>
                        /\ p.image.tags = { Suffixed(t, "-", b.options) : t \in ts }
                        /\ p.image.path = Suffixed(c.base_path \o "/" \o pv, "/", b.options)

C4_Witness ==
    /\ Called
    /\ \E p \in images :
         /\ Cardinality(p.image.tags) = 3
         /\ Len(p.build.options) = 3
         /\ Val(last_call).full_version_path
    /\ \E p \in images : Cardinality(p.image.tags) = 1
    /\ Cardinality(images) = 3

\* C5: build is read-only and idempotent: a call leaves the element set and the
\* latest mapping as they were, and a call with the arguments of the previous
\* one returns the same set of (element, tags, path).
C5_BuildReadOnlyIdempotent ==
    [][(phase = "ready" /\ phase' = "ready") =>
          /\ builds' = builds
          /\ latest' = latest
          /\ (Val(last_call').repeated => images' = images)]_vars

C5_Witness ==
    /\ Called
    /\ Val(last_call).repeated
    /\ \E p \in images : Cardinality(p.image.tags) > 1

\* C6 as stated: the tag sets of the images of two different elements are disjoint.
C6_TagSetsDisjoint ==
    Called =>
        \A p, q \in images : p.build # q.build => p.image.tags \cap q.image.tags = {}

\* C6 as amended: the tag sets of two elements with the same list of non-absent
\* options and different versions are disjoint.
C6_SameOptionsTagSetsDisjoint ==
    Called =>
        \A p, q \in images :
            (/\ filter_options(p.build) = filter_options(q.build)
             /\ get_formatted_version(p.build) # get_formatted_version(q.build))
            => p.image.tags \cap q.image.tags = {}

C6_Witness ==
    /\ Called
    /\ \E p, q \in images :
         /\ filter_options(p.build) = filter_options(q.build)
         /\ Len(filter_options(p.build)) > 0
         /\ get_formatted_version(p.build) # get_formatted_version(q.build)
         /\ Cardinality(p.image.tags) > 1
         /\ Cardinality(q.image.tags) > 1

(***************************************************************************)
(* Builder.build: render one Dockerfile per pair, then write the manifest  *)
(***************************************************************************)
RenderVersionStrings == { "0.0.0", "0.0.1", "0.1.0" }
RenderOptionTuples == { << >>, << Some("beta") >> }
RenderEntries == RenderVersionStrings \X RenderOptionTuples

Repo == "webplates/image"
Branch == "master"

\* What the template renders for a pair: a function of (build, image).
Rendering(pair) == [build |-> pair.build, image |-> pair.image]

\* dump_dockerfile creating the file exclusively: an existing file is kept.
dump_dockerfile_keep_existing(files, pair) ==
    LET dockerfile == pair.image.path \o "/Dockerfile"
    IN  IF dockerfile \in DOMAIN files THEN files
        ELSE DictSet(files, dockerfile, Rendering(pair))

\* template.stream(build=build, image=image).dump(image.path + "/Dockerfile"):
\* the file is created or overwritten.
dump_dockerfile(files, pair) ==
    DictSet(files, pair.image.path \o "/Dockerfile", Rendering(pair))

\* The manifest entry of a pair. list(image.tags) lists the set in some order;
\* the entry keeps the set.
image_list_entry(pair) == [tags |-> pair.image.tags, path |-> pair.image.path]

StaleFiles == ("dist/9.9/Dockerfile" :> [build |-> "stale", image |-> "stale"])

\* A Builder(clear) about to build the output of BuildMatrix.build("dist", full),
\* "dist" existing (with a Dockerfile of an earlier run) or not.
InitBuilder ==
    \E m \in SubsetsUpTo(RenderEntries, MaxBuilds) \ { {} },
       full \in BOOLEAN, clear \in BOOLEAN, dist_exists \in BOOLEAN :
        LET bs  == { ImageBuild(parse_version_info(t[1]), t[2]) : t \in m }
            lat == BuildMatrix_init(IterationOrder(bs))
            r   == BuildMatrix_build(bs, lat, "dist", full)
        IN  /\ phase = "ready"
            /\ matrix = m
            /\ builds = bs
            /\ latest = r.latest
            /\ last_call = Some([base_path |-> "dist", full_version_path |-> full,
                                 repeated |-> FALSE])
            /\ images = r.images
            /\ render = [pc |-> "idle", clear |-> clear, dist_exists |-> dist_exists,
                         files |-> IF dist_exists THEN StaleFiles ELSE EmptyDict,
                         todo |-> << >>, rendered |-> << >>,
                         image_list |-> << >>, manifest |-> NoneVal]
            /\ hub = HubIdle

\* Builder.build up to the loop: clear the directory if asked to and it exists,
\* then os.mkdir(dist), which fails when the directory is still there.
BuilderStart ==
    /\ render.pc = "idle"
    /\ LET cleared == render.clear /\ render.dist_exists
           files   == IF cleared THEN EmptyDict ELSE render.files
       IN  IF render.dist_exists /\ ~cleared
           THEN render' = [render EXCEPT !.pc = "failed"]
           ELSE \E order \in Orders(images) :
                  render' = [render EXCEPT !.pc = "rendering", !.dist_exists = TRUE,
                                           !.files = files, !.todo = order]
    /\ UNCHANGED <<phase, matrix, builds, latest, last_call, images, hub>>

\* One iteration of "for build, image in images".
BuilderRender ==
    /\ render.pc = "rendering"
    /\ Len(render.todo) > 0
    /\ LET pair == Head(render.todo)
       IN  render' = [render EXCEPT !.todo = Tail(@),
                                    !.rendered = Append(@, pair),
                                    !.image_list = Append(@, image_list_entry(pair)),
                                    !.files = dump_dockerfile(@, pair)]
    /\ UNCHANGED <<phase, matrix, builds, latest, last_call, images, hub>>

\* After the loop: write images.json.
BuilderFinish ==
    /\ render.pc = "rendering"
    /\ Len(render.todo) = 0
    /\ render' = [render EXCEPT !.pc = "done",
                                !.manifest = Some([repo |-> Repo, branch |-> Branch,
                                                   images |-> render.image_list])]
    /\ UNCHANGED <<phase, matrix, builds, latest, last_call, images, hub>>

NextBuilder == BuilderStart \/ BuilderRender \/ BuilderFinish

BuilderSpec == InitBuilder /\ [][NextBuilder]_vars

Dockerfiles == DOMAIN render.files

\* C10 as stated: after a successful Builder.build every pair has its own file,
\* holding its rendering, so there are as many Dockerfiles as pairs, and the
\* manifest has one {tags, path} entry per pair in the order rendered.
C10_EveryPairHasItsOwnFile ==
    render.pc = "done" =>
        /\ \A p \in images :
             /\ (p.image.path \o "/Dockerfile") \in Dockerfiles
             /\ render.files[p.image.path \o "/Dockerfile"] = Rendering(p)
        /\ Cardinality(Dockerfiles) = Cardinality(images)
        /\ Val(render.manifest).images
             = [i \in 1..Len(render.rendered) |-> image_list_entry(render.rendered[i])]
        /\ Len(render.rendered) = Cardinality(images)

\* C10 as amended: every pair is rendered once, to image.path + "/Dockerfile";
\* the file at a path holds the rendering of the last pair rendered with that
\* path, so there are as many Dockerfiles as distinct paths, and a pair that
\* shares its path with no other has its own file; the manifest has one
\* {tags, path} entry per pair in the order rendered.
C10_FileHoldsLastRenderingOfPath ==
    render.pc = "done" =>
        LET rendered == render.rendered
            n == Len(rendered)
        IN  /\ n = Cardinality(images)
            /\ { rendered[i] : i \in 1..n } = images
            /\ Dockerfiles = { p.image.path \o "/Dockerfile" : p \in images }
            /\ \A i \in 1..n :
                 (\A j \in (i + 1)..n : rendered[j].image.path # rendered[i].image.path)
                 => render.files[rendered[i].image.path \o "/Dockerfile"]
                      = Rendering(rendered[i])
            /\ Cardinality(Dockerfiles) = Cardinality({ p.image.path : p \in images })
            /\ Val(render.manifest).images
                 = [i \in 1..n |-> image_list_entry(rendered[i])]

C10_Witness ==
    /\ render.pc = "done"
    /\ render.clear
    /\ Cardinality(images) = 3
    /\ Cardinality(Dockerfiles) = 2

(***************************************************************************)
(* HubUpdater and the registry                                             *)
(***************************************************************************)
MaxCalls == 4        \* calls made on one HubUpdater instance
MaxExisting == 3     \* autobuild tags registered before the first call
PageSize == 2        \* registrations the registry lists per page

LoginStatuses == { 200, 401 }
ListStatuses == { 200, 500 }
DeleteStatuses == { 204, 404 }
AddStatuses == { 201, 400 }

ResponseText(status) == "HTTP " \o ToString(status)

\* The `images` lists of the manifests given to add_builds.
ManifestImages ==
    { << >>,
      << [tags |-> << "1.0.0", "1" >>, path |-> "dist/1.0"] >>,
      << [tags |-> << "1.0.1", "1.0" >>, path |-> "dist/1.0"],
         [tags |-> << >>, path |-> "dist/1.1"],
         [tags |-> << "2.0.0" >>, path |-> "dist/2.0"] >> }

\* The registry: page `page` of the registrations, PageSize a page, with the
\* next page as `next` (NoneVal on the last page).
server_list(registered, page) ==
    LET from == (page - 1) * PageSize + 1
        to   == IF page * PageSize < Len(registered) THEN page * PageSize ELSE Len(registered)
    IN  [results |-> SubSeq(registered, from, to),
         next    |-> IF page * PageSize < Len(registered) THEN Some(page + 1) ELSE NoneVal]

\* The registry after DELETE .../autobuild/tags/{id}/ answered 204.
server_delete(registered, id) == SelectSeq(registered, LAMBDA r : r.id # id)

\* The registry after POST .../autobuild/tags/ answered 201.
server_add(registered, id, build) ==
    Append(registered, [id |-> id, name |-> build.name,
                        dockerfile_location |-> build.dockerfile_location,
                        source_name |-> build.source_name])

ExistingTags(n) ==
    [i \in 1..n |-> [id |-> i, name |-> "old" \o ToString(i),
                     dockerfile_location |-> "dist/old", source_name |-> Branch]]

\* How a call ended: it returned, or raised Exception(message).
Running == [state |-> "running", message |-> ""]
Returned == [state |-> "returned", message |-> ""]
Raised(message) == [state |-> "raised", message |-> message]

NoOp == [builds |-> << >>, next |-> NoneVal, todo |-> << >>, before |-> << >>,
         images |-> << >>]

InitHub ==
    /\ phase = "new"
    /\ matrix = {}
    /\ builds = {}
    /\ latest = EmptyDict
    /\ last_call = NoneVal
    /\ images = {}
    /\ render = RenderIdle
    /\ \E n \in 0..MaxExisting :
         hub = [pc |-> "idle", token |-> NoneVal, login_ok |-> FALSE, calls |-> 0,
                call |-> "none", requests |-> << >>, outcome |-> Returned,
                registered |-> ExistingTags(n), next_id |-> n + 1, op |-> NoOp]

MatrixVars == <<phase, matrix, builds, latest, last_call, images, render>>

\* self.token after the login response.
login_token(token, response) ==
    IF response.status_code = 200 THEN Some(response.token) ELSE token

\* The guard that opens clear_builds and add_builds without its test: never raises.
not_logged_in_unchecked(token) == FALSE

\* "if self.token is None: raise Exception('You need to login first')"
not_logged_in(token) == IsNone(token)

\* A listing response taken for a success whatever its status.
list_failed_ignored(response) == FALSE

\* A listing response other than 200 raises "Invalid response".
list_failed(response) == response.status_code # 200

\* A registration response taken for a success whatever its status.
add_failed_ignored(response) == FALSE

\* A registration response other than 201 raises.
add_failed(response) == response.status_code # 201

\* A deletion response other than 204 raises.
delete_failed(response) == response.status_code # 204

\* Exception("ERROR [%d]: %s" % (response.status_code, response.text))
RegistryError(response) ==
    Raised("ERROR [" \o ToString(response.status_code) \o "]: " \o response.text)

Request(kind, token, data, response) ==
    [kind |-> kind, authorization |-> token, data |-> data, status_code |-> response.status_code]

\* HubUpdater.login
Login ==
    /\ hub.pc = "idle"
    /\ hub.calls < MaxCalls
    /\ \E status \in LoginStatuses :
         LET response == [status_code |-> status, token |-> "jwt", text |-> ResponseText(status)]
         IN  hub' = [hub EXCEPT !.calls = @ + 1,
                                !.call = "login",
                                !.op = NoOp,
                                !.requests = << Request("login", NoneVal, "credentials", response) >>,
                                !.token = login_token(@, response),
                                !.login_ok = @ \/ status = 200,
                                !.outcome = IF status = 200 THEN Returned
                                            ELSE Raised("Cannot login to Docker HUB")]
    /\ UNCHANGED MatrixVars

\* HubUpdater.clear_builds up to the first request.
ClearBuilds ==
    /\ hub.pc = "idle"
    /\ hub.calls < MaxCalls
    /\ hub' = [hub EXCEPT !.calls = @ + 1,
                          !.call = "clear_builds",
                          !.requests = << >>,
                          !.op = [NoOp EXCEPT !.next = Some(1), !.before = hub.registered],
                          !.pc = IF not_logged_in(hub.token) THEN "idle" ELSE "clear_listing",
                          !.outcome = IF not_logged_in(hub.token)
                                      THEN Raised("You need to login first") ELSE Running]
    /\ UNCHANGED MatrixVars

\* One listing request of clear_builds (the first page, then body["next"]).
ClearList ==
    /\ hub.pc = "clear_listing"
    /\ \E status \in ListStatuses :
         LET body     == server_list(hub.registered, Val(hub.op.next))
             response == [status_code |-> status, body |-> body, text |-> ResponseText(status)]
             request  == Request("list", hub.token, Val(hub.op.next), response)
             listed   == hub.op.builds \o body.results
         IN  IF list_failed(response)
             THEN hub' = [hub EXCEPT !.requests = Append(@, request),
                                     !.pc = "idle",
                                     !.outcome = Raised("Invalid response")]
             ELSE hub' = [hub EXCEPT !.requests = Append(@, request),
                                     !.op.builds = listed,
                                     !.op.next = body.next,
                                     !.op.todo = IF IsNone(body.next) THEN listed ELSE << >>,
                                     !.pc = IF ~IsNone(body.next) THEN "clear_listing"
                                            ELSE IF Len(listed) = 0 THEN "idle"
                                            ELSE "clear_deleting",
                                     !.outcome = IF IsNone(body.next) /\ Len(listed) = 0
                                                 THEN Returned ELSE Running]
    /\ UNCHANGED MatrixVars

\* One iteration of "for build in builds" of clear_builds.
ClearDelete ==
    /\ hub.pc = "clear_deleting"
    /\ \E status \in DeleteStatuses :
         LET build    == Head(hub.op.todo)
             response == [status_code |-> status, text |-> ResponseText(status)]
             request  == Request("delete", hub.token, build.id, response)
         IN  IF delete_failed(response)
             THEN hub' = [hub EXCEPT !.requests = Append(@, request),
                                     !.pc = "idle",
                                     !.outcome = RegistryError(response)]
             ELSE hub' = [hub EXCEPT !.requests = Append(@, request),
                                     !.registered = server_delete(@, build.id),
                                     !.op.todo = Tail(@),
                                     !.pc = IF Len(hub.op.todo) = 1 THEN "idle"
                                            ELSE "clear_deleting",
                                     !.outcome = IF Len(hub.op.todo) = 1 THEN Returned
                                                 ELSE Running]
    /\ UNCHANGED MatrixVars

\* The (image, tag) pairs of "for image in images: for tag in image['tags']".
RECURSIVE image_tags(_)
image_tags(imgs) ==
    IF Len(imgs) = 0 THEN << >>
    ELSE [i \in 1..Len(Head(imgs).tags) |-> [image |-> Head(imgs), tag |-> Head(imgs).tags[i]]]
           \o image_tags(Tail(imgs))

\* HubUpdater.add_builds up to the first request.
AddBuilds ==
    /\ hub.pc = "idle"
    /\ hub.calls < MaxCalls
    /\ \E imgs \in ManifestImages :
         LET refused == not_logged_in(hub.token)
             todo    == image_tags(imgs)
         IN  hub' = [hub EXCEPT !.calls = @ + 1,
                                !.call = "add_builds",
                                !.requests = << >>,
                                !.op = [NoOp EXCEPT !.images = imgs, !.todo = todo,
                                                    !.before = hub.registered],
                                !.pc = IF refused \/ Len(todo) = 0 THEN "idle" ELSE "adding",
                                !.outcome = IF refused THEN Raised("You need to login first")
                                            ELSE IF Len(todo) = 0 THEN Returned ELSE Running]
    /\ UNCHANGED MatrixVars

\* One registration request of add_builds.
AddBuild ==
    /\ hub.pc = "adding"
    /\ \E status \in AddStatuses :
         LET next     == Head(hub.op.todo)
             build    == [name |-> next.tag, dockerfile_location |-> next.image.path,
                          source_name |-> Branch, source_type |-> "Branch", isNew |-> TRUE]
             response == [status_code |-> status, text |-> ResponseText(status)]
             request  == Request("register", hub.token, build, response)
         IN  IF add_failed(response)
             THEN hub' = [hub EXCEPT !.requests = Append(@, request),
                                     !.pc = "idle",
                                     !.outcome = RegistryError(response)]
             ELSE hub' = [hub EXCEPT !.requests = Append(@, request),
                                     !.registered = IF status = 201
                                                    THEN server_add(@, hub.next_id, build)
                                                    ELSE @,
                                     !.next_id = IF status = 201 THEN @ + 1 ELSE @,
                                     !.op.todo = Tail(@),
                                     !.pc = IF Len(hub.op.todo) = 1 THEN "idle" ELSE "adding",
                                     !.outcome = IF Len(hub.op.todo) = 1 THEN Returned
                                                 ELSE Running]
    /\ UNCHANGED MatrixVars

NextHub == Login \/ ClearBuilds \/ ClearList \/ ClearDelete \/ AddBuilds \/ AddBuild

HubSpec == InitHub /\ [][NextHub]_vars

(***************************************************************************)
(* Properties of the HubUpdater                                            *)
(***************************************************************************)
Requests == hub.requests
Kinds(kinds) == { i \in DOMAIN Requests : Requests[i].kind \in kinds }

\* C7: no list, delete or registration request is issued before a login on the
\* instance has succeeded; clear_builds or add_builds called while
\* unauthenticated fails with an error and issues no request; a failed login
\* leaves the instance unauthenticated.
C7_NoRequestBeforeLogin ==
    /\ Kinds({"list", "delete", "register"}) # {} => hub.login_ok
    /\ (~hub.login_ok /\ hub.call \in {"clear_builds", "add_builds"})
         => /\ hub.outcome = Raised("You need to login first")
            /\ hub.pc = "idle"
            /\ Requests = << >>
    /\ ~hub.login_ok => IsNone(hub.token)
    /\ (~hub.login_ok /\ hub.call = "login") => hub.outcome.state = "raised"

C7_Witness ==
    /\ hub.calls = 3
    /\ ~hub.login_ok
    /\ hub.call = "add_builds"
    /\ Len(hub.op.todo) > 0
    /\ Len(hub.registered) > 0

\* The registrations a manifest asks for, in manifest order.
RECURSIVE Registrations(_)
Registrations(imgs) ==
    IF Len(imgs) = 0 THEN << >>
    ELSE LET last == imgs[Len(imgs)]
         IN  Registrations(SubSeq(imgs, 1, Len(imgs) - 1))
               \o [i \in 1..Len(last.tags) |->
                     [name |-> last.tags[i], dockerfile_location |-> last.path,
                      source_name |-> Branch]]

Registered(r) ==
    [name |-> r.name, dockerfile_location |-> r.dockerfile_location,
     source_name |-> r.source_name]

\* C8: an authenticated add_builds issues its registration requests one at a
\* time in manifest order, one per tag of every image, each with the tag as
\* name, the image's path as dockerfile_location and the branch as source; the
\* first response other than 201 fails the call with the status code and body
\* and no further request is issued, so exactly the tags before it are
\* registered; when every response is 201 there are as many requests as tags.
C8_AddBuildsInOrderUntilFailure ==
    (hub.call = "add_builds" /\ hub.login_ok) =>
        LET wanted == Registrations(hub.op.images)
            n      == Len(Requests)
            ok     == { i \in 1..n : Requests[i].status_code = 201 }
        IN  /\ n <= Len(wanted)
            /\ \A i \in 1..n :
                 /\ Requests[i].kind = "register"
                 /\ Requests[i].authorization = hub.token
                 /\ Registered(Requests[i].data) = wanted[i]
                 /\ i < n => i \in ok
            /\ (n > 0 /\ n \notin ok)
                 => /\ hub.pc = "idle"
                    /\ hub.outcome.state = "raised"
                    /\ hub.outcome.message
                         = "ERROR [" \o ToString(Requests[n].status_code) \o "]: "
                             \o ResponseText(Requests[n].status_code)
            /\ (n = 0 \/ n \in ok)
                 => IF n = Len(wanted) THEN hub.pc = "idle" /\ hub.outcome = Returned
                    ELSE hub.pc = "adding" /\ hub.outcome = Running
            /\ Len(hub.registered) = Len(hub.op.before) + Cardinality(ok)
            /\ \A i \in 1..Len(hub.registered) :
                 IF i <= Len(hub.op.before) THEN hub.registered[i] = hub.op.before[i]
                 ELSE Registered(hub.registered[i]) = wanted[i - Len(hub.op.before)]

C8_Witness ==
    /\ hub.call = "add_builds"
    /\ hub.login_ok
    /\ hub.pc = "idle"
    /\ Len(Requests) = 3
    /\ Requests[3].status_code # 201
    /\ Len(hub.registered) = Len(hub.op.before) + 2

\* The number of pages the registry lists n registrations on.
PagesOf(n) == IF n = 0 THEN 1 ELSE (n + PageSize - 1) \div PageSize

\* C9: an authenticated clear_builds lists every page, following next until it
\* is null, and only then deletes: no DELETE before the last page was listed
\* successfully; a listing response other than 200 fails the call with no DELETE
\* issued; when all requests succeed every listed registration id gets exactly
\* one DELETE; the first DELETE response other than 204 fails the call and no
\* further DELETE is issued.
C9_ClearBuildsListsThenDeletes ==
    (hub.call = "clear_builds" /\ hub.login_ok) =>
        LET n       == Len(Requests)
            lists   == Kinds({"list"})
            deletes == Kinds({"delete"})
            ids     == [i \in 1..Len(hub.op.before) |-> hub.op.before[i].id]
            k       == Cardinality(lists)
        IN  /\ lists \cup deletes = 1..n
            /\ lists = 1..k
            /\ k <= PagesOf(Len(ids))
            /\ \A i \in lists : Requests[i].data = i /\ Requests[i].authorization = hub.token
            /\ \A i \in lists :
                 Requests[i].status_code # 200
                 => /\ i = n
                    /\ deletes = {}
                    /\ hub.pc = "idle"
                    /\ hub.outcome = Raised("Invalid response")
                    /\ hub.registered = hub.op.before
            /\ deletes # {}
                 => /\ k = PagesOf(Len(ids))
                    /\ \A i \in lists : Requests[i].status_code = 200
            /\ \A i \in deletes :
                 /\ i - k <= Len(ids)
                 /\ Requests[i].data = ids[i - k]
                 /\ Requests[i].status_code # 204
                      => /\ i = n
                         /\ hub.pc = "idle"
                         /\ hub.outcome.state = "raised"
                         /\ hub.outcome.message
                              = "ERROR [" \o ToString(Requests[i].status_code) \o "]: "
                                  \o ResponseText(Requests[i].status_code)
            /\ hub.outcome = Returned
                 => /\ k = PagesOf(Len(ids))
                    /\ Cardinality(deletes) = Len(ids)
                    /\ \A i \in 1..Len(ids) :
                         Cardinality({ j \in deletes : Requests[j].data = ids[i] }) = 1
                    /\ hub.registered = << >>
            /\ hub.outcome.state = "raised"
                 => n > 0 /\ Requests[n].status_code \notin {200, 204}

C9_Witness ==
    /\ hub.call = "clear_builds"
    /\ hub.login_ok
    /\ hub.outcome = Returned
    /\ Cardinality(Kinds({"list"})) = 2
    /\ Cardinality(Kinds({"delete"})) = 3

====
